---- MODULE Spec2Model ----
(***************************************************************************)
(* Model of the STONKS market-data service: six tool handlers and the      *)
(* market-overview widget, in its three source variants                    *)
(*   "index"    src/stonks/src/index.ts   (hand-written ui objects)        *)
(*   "part_000" src/unnamed/part_000      (UI builders)                    *)
(*   "part_001" src/unnamed/part_001      (older variant, no widget)       *)
(* Numbers are exact rationals n/d (JavaScript doubles are not modelled    *)
(* bit for bit), with the special values NaN, +-Infinity and undefined.    *)
(***************************************************************************)
EXTENDS Integers, Sequences, FiniteSets, TLC

\* Longest result sequence the provider returns in the model.
MaxLen == 2
MaxArticles == 3

-----------------------------------------------------------------------------
(* JavaScript values                                                       *)

Abs(x) == IF x < 0 THEN -x ELSE x

RECURSIVE GCD(_, _)
GCD(a, b) == IF b = 0 THEN a ELSE GCD(b, a % b)

\* The number n/d (d > 0), in lowest terms.
Num(n, d) ==
    LET g == GCD(Abs(n), d)
    IN  IF n = 0 THEN [k |-> "num", n |-> 0, d |-> 1]
        ELSE [k |-> "num", n |-> n \div g, d |-> d \div g]

\* A price or an amount given in hundredths: Cents(15750) is 157.5.
Cents(c) == Num(c, 100)

NaN == [k |-> "nan", n |-> 0, d |-> 1]
PosInf == [k |-> "inf", n |-> 1, d |-> 1]
NegInf == [k |-> "inf", n |-> -1, d |-> 1]
\* undefined: an absent field.
Undef == [k |-> "undef", n |-> 0, d |-> 1]

IsUndef(x) == x.k = "undef"
IsFinite(x) == x.k = "num"

\* ToNumber of an operand of an arithmetic operator: undefined becomes NaN.
ToNumber(x) == IF IsUndef(x) THEN NaN ELSE x

\* a - b
Sub(a, b) ==
    LET x == ToNumber(a)
        y == ToNumber(b)
    IN  CASE x.k = "nan" \/ y.k = "nan" -> NaN
          [] x.k = "inf" /\ y.k = "inf" -> IF x.n = y.n THEN NaN ELSE x
          [] x.k = "inf" -> x
          [] y.k = "inf" -> [y EXCEPT !.n = -y.n]
          [] OTHER -> Num(x.n * y.d - y.n * x.d, x.d * y.d)

\* a / b: a zero divisor gives NaN (0/0) or an infinity.
Div(a, b) ==
    LET x == ToNumber(a)
        y == ToNumber(b)
    IN  CASE x.k = "nan" \/ y.k = "nan" -> NaN
          [] x.k = "inf" /\ y.k = "inf" -> NaN
          [] x.k = "inf" -> IF y.n < 0 THEN [x EXCEPT !.n = -x.n] ELSE x
          [] y.k = "inf" -> Num(0, 1)
          [] y.n = 0 -> IF x.n = 0 THEN NaN
                        ELSE IF x.n > 0 THEN PosInf ELSE NegInf
          [] OTHER -> IF y.n > 0 THEN Num(x.n * y.d, x.d * y.n)
                      ELSE Num(-(x.n * y.d), x.d * (-y.n))

\* a * b
Mul(a, b) ==
    LET x == ToNumber(a)
        y == ToNumber(b)
    IN  CASE x.k = "nan" \/ y.k = "nan" -> NaN
          [] x.k = "inf" \/ y.k = "inf" ->
                IF x.n = 0 \/ y.n = 0 THEN NaN
                ELSE IF (x.n > 0) = (y.n > 0) THEN PosInf ELSE NegInf
          [] OTHER -> Num(x.n * y.n, x.d * y.d)

\* a >= b
Geq(a, b) ==
    LET x == ToNumber(a)
        y == ToNumber(b)
    IN  CASE x.k = "nan" \/ y.k = "nan" -> FALSE
          [] x.k = "inf" /\ y.k = "inf" -> x.n >= y.n
          [] x.k = "inf" -> x.n > 0
          [] y.k = "inf" -> y.n < 0
          [] OTHER -> x.n * y.d >= y.n * x.d

\* Truthiness of a number or undefined (the test of `x ? a : b`).
Truthy(x) == x.k = "inf" \/ (x.k = "num" /\ x.n # 0)

\* a ?? b: only null and undefined are replaced; 0 and NaN are kept.
Nullish(a, b) == IF IsUndef(a) THEN b ELSE a

\* Numeric equality (NaN equals nothing).
NumEq(a, b) == a.k = b.k /\ a.k # "nan" /\ a.k # "undef" /\ a.n = b.n /\ a.d = b.d

Digits2(n) == IF n < 10 THEN "0" \o ToString(n) ELSE ToString(n)

\* |x| rounded to hundredths, ties away from zero (Number.prototype.toFixed
\* picks the larger n for the magnitude).
RoundHundredths(x) ==
    LET m == Abs(x.n)
    IN  (m \div x.d) * 100 + (2 * (m % x.d) * 100 + x.d) \div (2 * x.d)

\* x.toFixed(2) of a number x.
ToFixed2(x) ==
    CASE x.k = "nan" -> "NaN"
      [] x.k = "inf" -> IF x.n > 0 THEN "Infinity" ELSE "-Infinity"
      [] OTHER ->
            LET q == RoundHundredths(x)
            IN  (IF x.n < 0 THEN "-" ELSE "") \o ToString(q \div 100)
                    \o "." \o Digits2(q % 100)

DigitVal(ch) ==
    CASE ch = "0" -> 0 [] ch = "1" -> 1 [] ch = "2" -> 2 [] ch = "3" -> 3
      [] ch = "4" -> 4 [] ch = "5" -> 5 [] ch = "6" -> 6 [] ch = "7" -> 7
      [] ch = "8" -> 8 [] ch = "9" -> 9 [] OTHER -> -1

IsDigit(ch) == DigitVal(ch) >= 0

\* The digits of s from position i on: <<value, number of digits read>>.
RECURSIVE ReadDigits(_, _, _, _)
ReadDigits(s, i, acc, cnt) ==
    IF i <= Len(s) /\ IsDigit(SubSeq(s, i, i))
    THEN ReadDigits(s, i + 1, acc * 10 + DigitVal(SubSeq(s, i, i)), cnt + 1)
    ELSE <<acc, cnt>>

RECURSIVE Pow10(_)
Pow10(e) == IF e = 0 THEN 1 ELSE 10 * Pow10(e - 1)

\* parseFloat(s) of a string made by toFixed: an optional sign, digits, an
\* optional fraction; "Infinity" and "-Infinity"; anything else is NaN.
ParseFloat(s) ==
    LET neg == Len(s) > 0 /\ SubSeq(s, 1, 1) = "-"
        st == IF neg THEN 2 ELSE 1
        ip == ReadDigits(s, st, 0, 0)
        dot == st + ip[2]
        hasFrac == dot <= Len(s) /\ SubSeq(s, dot, dot) = "."
        fp == IF hasFrac THEN ReadDigits(s, dot + 1, 0, 0) ELSE <<0, 0>>
        mag == ip[1] * Pow10(fp[2]) + fp[1]
    IN  CASE SubSeq(s, st, Len(s)) = "Infinity" -> IF neg THEN NegInf ELSE PosInf
          [] ip[2] = 0 /\ fp[2] = 0 -> NaN
          [] OTHER -> Num(IF neg THEN -mag ELSE mag, Pow10(fp[2]))

\* Number(s) of a string made by toFixed.
ToNum(s) == ParseFloat(s)

\* The one character U+221E that toLocaleString prints for an infinity,
\* written in ASCII.
InfinitySign == "oo"

\* A non-negative integer with en-US thousands separators.
RECURSIVE Grouped(_)
Grouped(n) ==
    IF n < 1000 THEN ToString(n)
    ELSE LET r == n % 1000
         IN  Grouped(n \div 1000) \o ","
                \o (IF r < 10 THEN "00" ELSE IF r < 100 THEN "0" ELSE "")
                \o ToString(r)

\* x.toLocaleString(undefined, {minimumFractionDigits: 2,
\* maximumFractionDigits: 2}) in the en-US locale.
ToLocaleString2(x) ==
    CASE x.k = "nan" -> "NaN"
      [] x.k = "inf" -> IF x.n > 0 THEN InfinitySign ELSE "-" \o InfinitySign
      [] OTHER ->
            LET q == RoundHundredths(x)
            IN  (IF x.n < 0 /\ q # 0 THEN "-" ELSE "") \o Grouped(q \div 100)
                    \o "." \o Digits2(q % 100)

\* x.toLocaleString() in the en-US locale (at most 3 fraction digits,
\* trailing zeros dropped); the model's numbers have at most 2.
ToLocaleString(x) ==
    CASE x.k = "nan" -> "NaN"
      [] x.k = "inf" -> IF x.n > 0 THEN InfinitySign ELSE "-" \o InfinitySign
      [] OTHER ->
            LET q == RoundHundredths(x)
                f == q % 100
            IN  (IF x.n < 0 /\ q # 0 THEN "-" ELSE "") \o Grouped(q \div 100)
                    \o (IF f = 0 THEN ""
                        ELSE IF f % 10 = 0 THEN "." \o ToString(f \div 10)
                        ELSE "." \o Digits2(f))

-----------------------------------------------------------------------------
(* Provider data                                                           *)

\* A string value, null, and an object-valued cell, beside the numbers.
Str(s) == [k |-> "str", s |-> s]
Null == [k |-> "null", n |-> 0, d |-> 1]

\* An aggregate bar {o, c, h, l, v, vw, t}; t = n stands for the instant
\* 2025-01-n, n:00:00 AM of the server's (en-US) locale.
Bar(o, c, h, l, v, vw, t) ==
    [o |-> o, c |-> c, h |-> h, l |-> l, v |-> v, vw |-> vw, t |-> t]

\* The bar of the AAPL scenario: no vw field.
BarScenario ==
    Bar(Cents(15000), Cents(15750), Cents(15800), Cents(14900),
        Num(1000000, 1), Undef, 1)
BarUp ==
    Bar(Cents(10000), Cents(10500), Cents(10600), Cents(9900),
        Num(12345, 1), Cents(10250), 2)
BarDown ==
    Bar(Cents(10000), Cents(9500), Cents(10100), Cents(9400),
        Num(2000, 1), Cents(9750), 3)
BarZeroOpen ==
    Bar(Cents(0), Cents(500), Cents(600), Cents(0),
        Num(10, 1), Cents(300), 4)
BarZeroClose ==
    Bar(Cents(10000), Cents(0), Cents(10000), Cents(0),
        Num(10, 1), Cents(5000), 5)
BarNoOpen ==
    Bar(Undef, Cents(500), Cents(600), Cents(400),
        Num(10, 1), Cents(500), 6)
BarThird ==
    Bar(Cents(300), Cents(400), Cents(400), Cents(300),
        Num(7, 1), Cents(350), 7)
\* A close below half a cent: toFixed(2) makes it "0.00".
BarTinyClose ==
    Bar(Num(1, 250), Num(1, 250), Num(1, 250), Num(1, 250),
        Num(10, 1), Num(1, 250), 8)

Bars == {BarScenario, BarUp, BarDown, BarZeroOpen, BarZeroClose, BarNoOpen,
         BarThird}

\* The sequences over S of length at most n.
SeqsUpTo(S, n) == UNION {[1..m -> S] : m \in 0..n}

\* What a provider call comes back with: a rejection (transport fault, bad
\* key, timeout), a response without a results field, or results.
Rejected == [status |-> "rejected", results |-> <<>>]
NoResults == [status |-> "absent", results |-> <<>>]
Results(r) == [status |-> "ok", results |-> r]

\* resp.results?.[0]: the first result, undefined when there is none.
HasFirst(resp) == resp.status = "ok" /\ Len(resp.results) > 0

\* resp.results ?? []
ResultsOrEmpty(resp) == IF resp.status = "ok" THEN resp.results ELSE <<>>

Reverse(s) == [i \in 1..Len(s) |-> s[Len(s) + 1 - i]]

\* new Date(t).toLocaleDateString() and .toLocaleTimeString()
LocaleDate(t) == "1/" \o ToString(t) \o "/2025"
LocaleTime(t) == ToString(t) \o ":00:00 AM"

-----------------------------------------------------------------------------
(* Envelopes and ui nodes                                                  *)

\* What a handler ends with: a returned Envelope or a thrown fault.
Returned(e) == [threw |-> FALSE, message |-> "", value |-> e]
Thrown(msg) == [threw |-> TRUE, message |-> msg, value |-> <<>>]

\* An envelope's data: null, or a value.
DataNull == [isNull |-> TRUE, val |-> <<>>]
Data(v) == [isNull |-> FALSE, val |-> v]

Envelope(text, data, ui) == [text |-> text, data |-> data, ui |-> ui]

\* A ui node {type, uiData, children}.
Node(type, uiData, children) ==
    [type |-> type, uiData |-> uiData, children |-> children]

\* JSON.stringify of a number-valued property: NaN and the infinities are
\* written as null.
JsonNumber(x) == IF x.k \in {"nan", "inf"} THEN Null ELSE x

\* JSON.stringify of an object: the properties whose value is undefined are
\* left out.
DropUndefined(obj) ==
    [key \in {f \in DOMAIN obj : obj[f].k # "undef"} |-> obj[key]]

\* JSON.stringify(tableData), as the value a reader parses back.
StringifyTable(t) ==
    [columns |-> t.columns,
     rows |-> [i \in 1..Len(t.rows) |-> DropUndefined(t.rows[i])]]

\* JSON.stringify(chartData), as the value a reader parses back.
StringifyChart(c) ==
    [c EXCEPT !.data = [i \in 1..Len(c.data) |->
                            [c.data[i] EXCEPT !.price = JsonNumber(@)]],
              !.trend = IF c.trend.present
                        THEN [c.trend EXCEPT !.value = JsonNumber(@)]
                        ELSE c.trend]

NoTrend == [present |-> FALSE, value |-> Null, text |-> ""]
Trend(value, text) == [present |-> TRUE, value |-> value, text |-> text]

\* A table column; width "" stands for a column declared without a width.
Column(key, header, type, width) ==
    [key |-> key, header |-> header, type |-> type, width |-> width]

-----------------------------------------------------------------------------
(* ui builders of @dainprotocol/utils (part_000) and the dispatcher of     *)
(* @dainprotocol/service-sdk: not in the source tree, taken from the       *)
(* specification's sections 4.1 and 4.3.                                   *)

\* new TableUIBuilder().addColumns(columns).rows(rows).build(): the payload
\* reads back as the columns and rows given (section 8's round-trip law).
buildTable(columns, rows) ==
    Node("table", [columns |-> columns, rows |-> rows], <<>>)

\* new ChartUIBuilder().type(..).title(..).chartData(..)...build()
buildChart(chart) == Node("chart", StringifyChart(chart), <<>>)

\* new CardUIBuilder().title(..).content(..).addChild(a).addChild(b).build()
buildCard(title, content, children) ==
    Node("card", [title |-> title, content |-> content], children)

\* new AlertUIBuilder().withVariant(variant).withMessage(message).build()
buildAlert(variant, message) ==
    Node("alert", [variant |-> variant, message |-> message], <<>>)

\* invoke, steps 4 and 5: a handler's fault becomes the uniform failure
\* Envelope; a returned Envelope is passed on unchanged.
Dispatch(outcome) ==
    IF outcome.threw
    THEN Envelope(outcome.message, DataNull, buildAlert("error", outcome.message))
    ELSE outcome.value

-----------------------------------------------------------------------------
(* get-stock-price                                                         *)

RejectionMessage == "provider request failed"

TypeErrorReading(prop) ==
    "Cannot read properties of undefined (reading '" \o prop \o "')"

\* ((change) / open * 100).toFixed(2)   index.ts:60, part_000:68
PercentFixed(change, open) == ToFixed2(Mul(Div(change, open), Num(100, 1)))

\* ((change) / (open ?? 1) * 100).toFixed(2)   part_001:48, index.ts:463
PercentFixedOr1(change, open) ==
    ToFixed2(Mul(Div(change, Nullish(open, Num(1, 1))), Num(100, 1)))

\* data.c ? data.c - data.o : 0   part_001:47, index.ts:462
ChangeIfClose(bar) == IF Truthy(bar.c) THEN Sub(bar.c, bar.o) ELSE Num(0, 1)

PriceColumns(width1, width2) ==
    << Column("metric", "Metric", "text", width1),
       Column("value", "Value", "text", width2) >>

MetricRow(metric, value) == [metric |-> Str(metric), value |-> Str(value)]

\* The five rows of the statistics table (index.ts:104-110, part_000:90-96).
PriceRows(b) ==
    << MetricRow("Volume", ToLocaleString(b.v)),
       MetricRow("Open", "$" \o ToFixed2(b.o)),
       MetricRow("High", "$" \o ToFixed2(b.h)),
       MetricRow("Low", "$" \o ToFixed2(b.l)),
       MetricRow("VWAP", "$" \o ToFixed2(b.vw)) >>

\* The method call on an absent field that faults first while the table rows
\* and the text are built, "" when every field read that way is there.
PriceFaultingRead(b) ==
    CASE IsUndef(b.v) -> "toLocaleString"
      [] IsUndef(b.o) \/ IsUndef(b.h) \/ IsUndef(b.l) \/ IsUndef(b.vw)
            \/ IsUndef(b.c) -> "toFixed"
      [] OTHER -> ""

PriceText(ticker, closeFixed, changePercent) ==
    ticker \o " is trading at $" \o closeFixed \o ". Today's change: "
        \o changePercent \o "%"

PriceData(price, high, low, volume, change, changePercent) ==
    Data([price |-> price, high |-> high, low |-> low, volume |-> volume,
          change |-> change, changePercent |-> ParseFloat(changePercent)])

\* The chart object of the price tool (index.ts:63-87).
PriceChart(title, description, series, changePercent) ==
    [type |-> "line", title |-> title, description |-> description,
     data |-> series,
     dataKeys |-> [x |-> "time", y |-> "price"],
     trend |-> Trend(ParseFloat(changePercent), changePercent \o "% change"),
     footer |-> ""]

\* The array is reversed where it lies.
ResultsReversedInPlace(aggs) == Reverse(ResultsOrEmpty(aggs))

\* [...(aggs.results ?? [])]: reverse() works on a copy, the array of the
\* response stays as it came.
ResultsAfterReverse(aggs) == ResultsOrEmpty(aggs)

\* [...(aggs.results ?? [])].reverse().map(bar => ({time, price}))
PriceSeries(aggs) ==
    LET r == Reverse(ResultsOrEmpty(aggs))
    IN  [i \in 1..Len(r) |-> [time |-> LocaleDate(r[i].t), price |-> r[i].c]]

\* A handler that answers the missing bar with an empty success Envelope
\* instead of failing.
NoDataOutcomeAsSuccess(ticker) ==
    Returned(Envelope(ticker \o " has no recent data", Data(<<>>),
                      Node("div", [title |-> ticker \o " Stock Price and Stats",
                                   content |-> ""], <<>>)))

\* if (!latestData) throw new Error(`No data available for ${ticker}`)
\* (index.ts:55-57, part_000:63-65).
NoDataOutcome(ticker) == Thrown("No data available for " \o ticker)

\* The handler of index.ts after its aggregates call has come back.
PriceHandlerIndex(ticker, aggs) ==
    IF aggs.status = "rejected" THEN Thrown(RejectionMessage)
    ELSE IF ~HasFirst(aggs) THEN NoDataOutcome(ticker)
    ELSE
      LET latestData == aggs.results[1]
          change == Sub(latestData.c, latestData.o)
          changePercent == PercentFixed(change, latestData.o)
          chartData == PriceChart(ticker \o " 5-Day Price History",
                           "Price movement over the last 5 trading days",
                           PriceSeries(aggs), changePercent)
          text == PriceText(ticker, ToFixed2(latestData.c), changePercent)
      IN  IF PriceFaultingRead(latestData) # ""
          THEN Thrown(TypeErrorReading(PriceFaultingRead(latestData)))
          ELSE Returned(Envelope(text,
                  PriceData(latestData.c, latestData.h, latestData.l,
                            latestData.v, change, changePercent),
                  Node("div",
                       [title |-> ticker \o " Stock Price and Stats",
                        content |-> text],
                       << Node("chart", StringifyChart(chartData), <<>>),
                          Node("table",
                               StringifyTable(
                                   [columns |-> PriceColumns("40%", "60%"),
                                    rows |-> PriceRows(latestData)]),
                               <<>>) >>)))

\* The handler of part_000 after its aggregates call has come back.
PriceHandlerPart000(ticker, aggs) ==
    IF aggs.status = "rejected" THEN Thrown(RejectionMessage)
    ELSE IF ~HasFirst(aggs) THEN NoDataOutcome(ticker)
    ELSE
      LET latestData == aggs.results[1]
          change == Sub(latestData.c, latestData.o)
          changePercent == PercentFixed(change, latestData.o)
          chart == [PriceChart(ticker \o " 5-Day Price History",
                        "Price movement over the last 5 trading days",
                        PriceSeries(aggs), changePercent)
                      EXCEPT !.dataKeys =
                          [x |-> "time", y |-> "price", name |-> "Price"]]
          text == PriceText(ticker, ToFixed2(latestData.c), changePercent)
      IN  IF PriceFaultingRead(latestData) # ""
          THEN Thrown(TypeErrorReading(PriceFaultingRead(latestData)))
          ELSE Returned(Envelope(text,
                  PriceData(latestData.c, latestData.h, latestData.l,
                            latestData.v, change, changePercent),
                  buildCard(ticker \o " Stock Price and Stats", text,
                      << buildChart(chart),
                         buildTable(PriceColumns("", ""),
                                    PriceRows(latestData)) >>)))

\* part_001: what is kept of the previousClose response (prevClose.results[0]).
NoBar == [defined |-> FALSE, bar |-> Bar(Undef, Undef, Undef, Undef, Undef, Undef, 0)]
SomeBar(b) == [defined |-> TRUE, bar |-> b]

\* (aggs.results ?? []).map(bar => ({time, price: bar.c ?? 0}))
PriceSeriesPart001(aggs) ==
    LET r == ResultsOrEmpty(aggs)
    IN  [i \in 1..Len(r) |->
            [time |-> LocaleTime(r[i].t), price |-> Nullish(r[i].c, Num(0, 1))]]

\* x?.toFixed(2) in a template literal: "undefined" for an absent x.
OptFixed2(x) == IF IsUndef(x) THEN "undefined" ELSE ToFixed2(x)

\* The handler of part_001 after its aggregates call has come back;
\* prevCloseData is what the earlier previousClose call left.
PriceHandlerPart001(ticker, prevCloseData, aggs) ==
    IF aggs.status = "rejected" THEN Thrown(RejectionMessage)
    ELSE IF ~prevCloseData.defined THEN Thrown(TypeErrorReading("c"))
    ELSE
      LET b == prevCloseData.bar
          change == ChangeIfClose(b)
          changePercent == PercentFixedOr1(change, b.o)
          chartData == PriceChart(ticker \o " 24 Hour Price History",
                           "Price movement over the last 24 hours",
                           PriceSeriesPart001(aggs), changePercent)
          text == PriceText(ticker, OptFixed2(b.c), changePercent)
          zero == Num(0, 1)
      IN  Returned(Envelope(text,
              PriceData(Nullish(b.c, zero), Nullish(b.h, zero),
                        Nullish(b.l, zero), Nullish(b.v, zero),
                        change, changePercent),
              Node("div",
                   [title |-> ticker \o " Stock Price and Stats",
                    content |-> text],
                   << Node("chart", StringifyChart(chartData), <<>>) >>)))

-----------------------------------------------------------------------------
(* get-stock-news, get-stock-chart, get-stock-details, get-stock-dividends, *)
(* get-stock-splits: the same in the three variants up to the way the ui    *)
(* node is made.                                                            *)

\* The table node: written out in index.ts and part_001 (with widths),
\* built by TableUIBuilder in part_000 (without).
TableGiven(v, columns, rows) ==
    [columns |-> IF v = "part_000"
                 THEN [i \in 1..Len(columns) |-> [columns[i] EXCEPT !.width = ""]]
                 ELSE columns,
     rows |-> rows]

TableNode(v, columns, rows) ==
    IF v = "part_000"
    THEN buildTable(TableGiven(v, columns, rows).columns, rows)
    ELSE Node("table", StringifyTable(TableGiven(v, columns, rows)), <<>>)

\* The chart node, likewise; part_000 adds a series name to dataKeys.
ChartNode(v, chart, name) ==
    IF v = "part_000"
    THEN buildChart([chart EXCEPT !.dataKeys =
                        [x |-> chart.dataKeys.x, y |-> chart.dataKeys.y,
                         name |-> name]])
    ELSE Node("chart", StringifyChart(chart), <<>>)

Article(title, publisher, day, url) ==
    [title |-> Str(title), publisher |-> [name |-> Str(publisher)],
     published_utc |-> day, article_url |-> Str(url)]

Articles ==
    { Article("Shares jump", "Newswire", 2, "https://news.example/1"),
      Article("Shares fall", "Daily Ticker", 3, "https://news.example/2") }

NewsColumns ==
    << Column("publisher", "Source", "text", "20%"),
       Column("title", "Title", "text", "50%"),
       Column("url", "Link", "link", "15%"),
       Column("timestamp", "Published", "text", "15%") >>

\* response.results.map(article => ({title, publisher, timestamp, url}))
NewsArticles(r) ==
    [i \in 1..Len(r) |->
        [title |-> r[i].title,
         publisher |-> r[i].publisher.name,
         timestamp |-> r[i].published_utc,
         url |-> r[i].article_url]]

\* Only the first article is kept.
NewsRowsFirstOnly(articles) ==
    [i \in 1..(IF Len(articles) = 0 THEN 0 ELSE 1) |->
        [title |-> articles[i].title,
         publisher |-> articles[i].publisher,
         url |-> [k |-> "obj", text |-> Str("Read More"), url |-> articles[i].url],
         timestamp |-> Str(LocaleDate(articles[i].timestamp))]]

\* articles.map(article => ({...article, url: {...}, timestamp: ...}))
NewsRows(articles) ==
    [i \in 1..Len(articles) |->
        [title |-> articles[i].title,
         publisher |-> articles[i].publisher,
         url |-> [k |-> "obj", text |-> Str("Read More"), url |-> articles[i].url],
         timestamp |-> Str(LocaleDate(articles[i].timestamp))]]

\* The news handler after tickerNews has come back.
NewsHandler(v, ticker, response) ==
    IF response.status = "rejected" THEN Thrown(RejectionMessage)
    ELSE IF response.status = "absent" THEN Thrown(TypeErrorReading("map"))
    ELSE
      LET articles == NewsArticles(response.results)
          rows == NewsRows(articles)
      IN  Returned(Envelope(
              "Found " \o ToString(Len(articles)) \o " news articles for "
                  \o ticker,
              Data([articles |-> articles]),
              TableNode(v, NewsColumns, rows)))

\* The chart handler after aggregates has come back.
ChartHandler(v, in, response) ==
    IF response.status = "rejected" THEN Thrown(RejectionMessage)
    ELSE IF response.status = "absent" THEN Thrown(TypeErrorReading("map"))
    ELSE
      LET r == response.results
          chartData ==
              [type |-> "line", title |-> in.ticker \o " Price History",
               description |-> "From " \o in.from \o " to " \o in.to,
               data |-> [i \in 1..Len(r) |->
                           [date |-> LocaleDate(r[i].t), price |-> r[i].c]],
               dataKeys |-> [x |-> "date", y |-> "price"],
               trend |-> NoTrend,
               footer |-> in.timespan \o "ly price data with multiplier "
                              \o ToString(in.multiplier)]
      IN  Returned(Envelope(
              "Retrieved historical data for " \o in.ticker \o " from "
                  \o in.from \o " to " \o in.to,
              Data([results |-> r]),
              ChartNode(v, chartData, "Price")))

Details(name, marketCap) ==
    [name |-> Str(name), description |-> Str(name \o " makes things"),
     market_cap |-> marketCap, primary_exchange |-> Str("XNAS"),
     sic_description |-> Str("ELECTRONIC COMPUTERS"),
     homepage_url |-> Str("https://example.com")]

DetailsSet == { Details("Apple Inc.", Num(3000000, 1)), Details("Fund Trust", Undef) }

DetailsColumns ==
    << Column("field", "Field", "text", "40%"),
       Column("value", "Value", "text", "60%") >>

FieldRow(field, value) == [field |-> Str(field), value |-> value]

\* tableData.rows of the details handler.
DetailsRows(details) ==
    << FieldRow("Name", details.name),
       FieldRow("Description", details.description),
       FieldRow("Market Cap",
                IF IsUndef(details.market_cap) THEN Undef
                ELSE Str(ToLocaleString(details.market_cap))),
       FieldRow("Exchange", details.primary_exchange),
       FieldRow("Industry", details.sic_description),
       FieldRow("Homepage", details.homepage_url) >>

\* The details handler after tickerDetails has come back; results is one
\* object here (held as a one-element sequence).
DetailsHandler(v, ticker, response) ==
    IF response.status = "rejected" THEN Thrown(RejectionMessage)
    ELSE IF ~HasFirst(response) THEN Thrown(TypeErrorReading("name"))
    ELSE
      LET details == response.results[1]
          rows == DetailsRows(details)
      IN  Returned(Envelope(
              ticker \o " (" \o details.name.s \o ") is listed on "
                  \o details.primary_exchange.s,
              Data(details),
              TableNode(v, DetailsColumns, rows)))

Dividend(exDay, amount, payDay) ==
    [ex_dividend_date |-> exDay, cash_amount |-> amount, pay_date |-> payDay]

Dividends == { Dividend(2, Cents(24), 9), Dividend(3, Cents(125), 8) }

DividendColumns ==
    << Column("date", "Ex-Dividend Date", "text", "30%"),
       Column("amount", "Amount", "text", "30%"),
       Column("payDate", "Pay Date", "text", "40%") >>

\* tableData.rows of the dividends handler.
DividendRows(r) ==
    [i \in 1..Len(r) |->
        [date |-> Str(LocaleDate(r[i].ex_dividend_date)),
         amount |-> Str("$" \o ToFixed2(r[i].cash_amount)),
         payDate |-> Str(LocaleDate(r[i].pay_date))]]

\* The dividends handler after dividends has come back.
DividendsHandler(v, ticker, response) ==
    IF response.status = "rejected" THEN Thrown(RejectionMessage)
    ELSE IF response.status = "absent" THEN Thrown(TypeErrorReading("map"))
    ELSE
      LET r == response.results
          rows == DividendRows(r)
      IN  Returned(Envelope(
              "Retrieved last " \o ToString(Len(r)) \o " dividend records for "
                  \o ticker,
              Data(r),
              TableNode(v, DividendColumns, rows)))

Split(day, to, from) ==
    [execution_date |-> day, split_to |-> to, split_from |-> from]

Splits == { Split(4, 4, 1), Split(5, 7, 1) }

SplitColumns ==
    << Column("date", "Execution Date", "text", "40%"),
       Column("ratio", "Split Ratio", "text", "60%") >>

\* tableData.rows of the splits handler.
SplitRows(r) ==
    [i \in 1..Len(r) |->
        [date |-> Str(LocaleDate(r[i].execution_date)),
         ratio |-> Str(ToString(r[i].split_to) \o ":" \o ToString(r[i].split_from))]]

\* The splits handler after stockSplits has come back.
SplitsHandler(v, ticker, response) ==
    IF response.status = "rejected" THEN Thrown(RejectionMessage)
    ELSE IF response.status = "absent" THEN Thrown(TypeErrorReading("map"))
    ELSE
      LET r == response.results
          rows == SplitRows(r)
      IN  Returned(Envelope(
              "Retrieved last " \o ToString(Len(r)) \o " stock splits for "
                  \o ticker,
              Data(r),
              TableNode(v, SplitColumns, rows)))

-----------------------------------------------------------------------------
(* marketOverview widget (index.ts and part_000; part_001 has none)        *)

\* The ETFs looked up, in the order of the indices array.
Indices ==
    << [ticker |-> "DIA", name |-> "Dow Jones"],
       [ticker |-> "SPY", name |-> "S&P 500"],
       [ticker |-> "QQQ", name |-> "NASDAQ"],
       [ticker |-> "IWM", name |-> "Russell 2000"] >>

\* A lookup not issued, and one issued and not yet answered.
NotIssued == [status |-> "none", results |-> <<>>]
Pending == [status |-> "pending", results |-> <<>>]

Settled(l) == l.status \in {"ok", "absent", "rejected"}

\* What one callback of indices.map returns once previousClose(ticker) has
\* come back without rejecting (index.ts:450-471).
IndexResult(name, prevClose) ==
    IF ~HasFirst(prevClose)
    THEN [name |-> name, price |-> "N/A", change |-> "0.00",
          changePercent |-> "0.00", isPositive |-> TRUE]
    ELSE
      LET data == prevClose.results[1]
          change == ChangeIfClose(data)
      IN  [name |-> name,
           price |-> IF IsUndef(data.c) THEN "N/A" ELSE ToFixed2(data.c),
           change |-> ToFixed2(change),
           changePercent |-> PercentFixedOr1(change, data.o),
           isPositive |-> Geq(change, Num(0, 1))]

\* results: the four callbacks' values, in the order of Indices.
WidgetResults(lk) == [i \in 1..Len(Indices) |-> IndexResult(Indices[i].name, lk[i])]

WidgetColumns ==
    << Column("name", "Index", "text", "30%"),
       Column("price", "Price", "text", "25%"),
       Column("change", "Change", "text", "25%"),
       Column("changePercent", "%", "text", "20%") >>

Plus(result) == IF result.isPositive THEN "+" ELSE ""
Colour(result) == IF result.isPositive THEN "#22C55E" ELSE "#EF4444"

\* One table row of the widget (index.ts:482-504, part_000:412-426); only
\* index.ts adds the style entry.
WidgetRow(v, result) ==
    LET price == Str(IF result.price = "N/A" THEN "N/A"
                     ELSE "$" \o ToLocaleString2(ToNum(result.price)))
        change == Str(Plus(result) \o "$" \o ToLocaleString2(ToNum(result.change)))
        pct == Str(Plus(result) \o ToLocaleString2(ToNum(result.changePercent))
                       \o "%")
    IN  IF v = "index"
        THEN [name |-> Str(result.name), price |-> price, change |-> change,
              changePercent |-> pct,
              style |-> [k |-> "obj", change |-> Colour(result),
                         changePercent |-> Colour(result)]]
        ELSE [name |-> Str(result.name), price |-> price, change |-> change,
              changePercent |-> pct]

WidgetRows(v, results) == [i \in 1..Len(results) |-> WidgetRow(v, results[i])]

WidgetText(results) ==
    "Market Overview - S&P 500: " \o results[2].changePercent \o "%"

UnableMessage ==
    "Unable to load market data at this time. Please check your Polygon.io API key and permissions."

\* A failure Envelope without its text.
WidgetFailureNoText(v) == Envelope("", DataNull, buildAlert("error", UnableMessage))

\* The Envelope of the catch block: a "p" node in index.ts (582-592), an
\* alert built by AlertUIBuilder in part_000 (453-463).
WidgetFailure(v) ==
    Envelope("Failed to load market overview", DataNull,
             IF v = "index"
             THEN [type |-> "p", uiData |-> <<>>, children |-> UnableMessage]
             ELSE buildAlert("error", UnableMessage))

RECURSIVE SelectSeq2(_, _)
\* s.filter(Test), kept as a definition over records.
SelectSeq2(s, keep) ==
    IF s = <<>> THEN <<>>
    ELSE IF keep[1] THEN <<s[1]>> \o SelectSeq2(Tail(s), Tail(keep))
    ELSE SelectSeq2(Tail(s), Tail(keep))

\* The chart points without the filter on the price.
SpySeriesUnfiltered(aggs) ==
    LET r == ResultsOrEmpty(aggs)
    IN  [i \in 1..Len(r) |->
            LET price == ToNum(ToFixed2(ToNumber(r[i].c)))
            IN  [time |-> "Jan " \o ToString(r[i].t), price |-> price,
                 label |-> "$" \o ToLocaleString(price)]]

\* The 30-day chart series of index.ts (524-532): each bar's close rounded
\* to 2 places, the points whose price is 0 or NaN filtered out.
SpySeries(aggs) ==
    LET r == ResultsOrEmpty(aggs)
        pts == [i \in 1..Len(r) |->
                  LET price == ToNum(ToFixed2(ToNumber(r[i].c)))
                  IN  [time |-> "Jan " \o ToString(r[i].t), price |-> price,
                       label |-> "$" \o ToLocaleString(price)]]
    IN  SelectSeq2(pts, [i \in 1..Len(r) |-> Truthy(pts[i].price)])

WidgetChart(series) ==
    [type |-> "line", title |-> "S&P 500",
     description |-> "30-day price history", data |-> series,
     dataKeys |-> [x |-> "time", y |-> "price", tooltip |-> "label"],
     trend |-> NoTrend, footer |-> ""]

DivStyle ==
    [style |-> [padding |-> "12px", backgroundColor |-> "#ffffff",
                borderRadius |-> "8px",
                boxShadow |-> "0 1px 3px rgba(0,0,0,0.12)"]]

\* The chart is put before the table.
WidgetChildrenChartFirst(table, chart, points) ==
    IF points > 0 THEN << chart, table >> ELSE << table >>

\* children of the widget's root in index.ts (551-564): the table, and the
\* chart pushed after it only if its series has data.
WidgetChildren(table, chart, points) ==
    IF points > 0 THEN << table, chart >> ELSE << table >>

\* The widget's Envelope when a failed SPY aggregates call is taken for one
\* without bars.
WidgetComposeIndexWithoutCatch(lk, aggs) ==
    LET results == WidgetResults(lk)
        tableData == [columns |-> WidgetColumns,
                      rows |-> WidgetRows("index", results)]
        chartData == WidgetChart(SpySeries(aggs))
        table == Node("table", StringifyTable(tableData), <<>>)
        children == WidgetChildren(table,
                        Node("chart", StringifyChart(chartData), <<>>),
                        Len(chartData.data))
    IN  Envelope(WidgetText(results), Data(results),
                 Node("div", DivStyle, children))

\* index.ts once the SPY aggregates call has come back (520-592).
WidgetComposeIndex(lk, aggs) ==
    IF aggs.status = "rejected" THEN WidgetFailure("index")
    ELSE
      LET results == WidgetResults(lk)
          tableData == [columns |-> WidgetColumns,
                        rows |-> WidgetRows("index", results)]
          chartData == WidgetChart(SpySeries(aggs))
          table == Node("table", StringifyTable(tableData), <<>>)
          children == WidgetChildren(table,
                          Node("chart", StringifyChart(chartData), <<>>),
                          Len(chartData.data))
      IN  Envelope(WidgetText(results), Data(results),
                   Node("div", DivStyle, children))

\* part_000 once the four lookups have come back (405-452): the chart is
\* drawn from the lookups themselves and is always added.
WidgetComposePart000(lk) ==
    LET results == WidgetResults(lk)
        shown == SelectSeq2(results,
                            [i \in 1..Len(results) |-> results[i].price # "N/A"])
        chart == [type |-> "line", title |-> "S&P 500",
                  description |-> "30-day price history",
                  data |-> [i \in 1..Len(shown) |->
                              [time |-> shown[i].name,
                               price |-> ToNum(shown[i].price)]],
                  dataKeys |-> [x |-> "time", y |-> "price",
                                name |-> "S&P 500 Price"],
                  trend |-> NoTrend, footer |-> ""]
    IN  Envelope(WidgetText(results), Data(results),
                 buildCard("", "",
                     << buildTable([i \in 1..Len(WidgetColumns) |->
                                       [WidgetColumns[i] EXCEPT !.width = ""]],
                                   WidgetRows("part_000", results)),
                        buildChart(chart) >>))

-----------------------------------------------------------------------------
(* The service: one invocation at a time, from the request to the Envelope *)
(* the caller receives.  Each action is one run of the handler between two *)
(* suspension points (an await of a provider call).                        *)

VARIABLES
    variant,    \* which of the three source files is the running service
    pc,         \* "idle", the provider call awaited, or "done"
    op,         \* id of the tool or widget invoked
    input,      \* the invocation's input
    issued,     \* the provider requests issued by this invocation, in order
    answers,    \* what came back to a tool handler's calls, in order
    prev,       \* part_001 price: prevCloseData
    lookup,     \* widget: the state of each of the four previousClose lookups
    outcome,    \* what the handler ended with (returned or thrown)
    env,        \* the Envelope the caller receives
    caller,     \* agentInfo.id of the invocation ("" for the widget)
    logged,     \* the line the handler wrote with console.log
    parked,     \* a second invocation, suspended at an await or not started
    registry,   \* the ids the service was defined with
    arrival,    \* widget, a history kept by OrderSpec alone: the lookups
                \* (positions in indices) in the order they came back
    heldResults \* aggs.results (?? []) as the array stands once the price
                \* or chart handler is through with it

vars == <<variant, pc, op, input, issued, answers, prev, lookup, outcome, env,
          caller, logged, parked, registry, arrival, heldResults>>

Variants == {"index", "part_000", "part_001"}

Tools == {"get-stock-price", "get-stock-news", "get-stock-chart",
          "get-stock-details", "get-stock-dividends", "get-stock-splits"}
WidgetId == "marketOverview"

Tickers == {"AAPL", "TSLA"}
Callers == {"agent-1", "agent-2"}

\* The widget is given the id of the price tool.
ContractIdsColliding(v) ==
    << "get-stock-price", "get-stock-news", "get-stock-chart",
       "get-stock-details", "get-stock-dividends", "get-stock-splits" >>
        \o (IF v = "part_001" THEN << >> ELSE << "get-stock-price" >>)

\* The ids of the contracts handed to defineDAINService, tools then
\* pinnables, in the order of the two lists.
ContractIds(v) ==
    << "get-stock-price", "get-stock-news", "get-stock-chart",
       "get-stock-details", "get-stock-dividends", "get-stock-splits" >>
        \o (IF v = "part_001" THEN << >> ELSE << "marketOverview" >>)

\* tools and pinnables of defineDAINService; part_001 pins no widget.
Registered(v) == IF v = "part_001" THEN Tools ELSE Tools \cup {WidgetId}

\* The word the handler's first console.log names the tool with.
LogNoun(t) ==
    CASE t = "get-stock-price" -> "price"
      [] t = "get-stock-news" -> "news"
      [] t = "get-stock-chart" -> "chart"
      [] t = "get-stock-details" -> "details"
      [] t = "get-stock-dividends" -> "dividends"
      [] t = "get-stock-splits" -> "splits"

LogLine(t, in, c) ==
    "User / Agent " \o c \o " requested " \o LogNoun(t) \o " for " \o in.ticker

\* The limit option of the price tool's aggregates request (index.ts:50).
PriceAggsLimit == 10
\* The declared defaults of limit.
NewsDefaultLimit == 5
DividendsDefaultLimit == 10
SplitsDefaultLimit == 5

\* `missing` holds the names of the schema's fields the raw input lacks.
NoInput ==
    [ticker |-> "", limit |-> Undef, multiplier |-> 0, timespan |-> "",
     from |-> "", to |-> "", missing |-> {}]

\* The valid inputs tried for a tool: every ticker; limit absent, 0 or 3 where
\* the schema has one; one date range for the chart tool.
InputsOf(t) ==
    CASE t \in {"get-stock-news", "get-stock-dividends", "get-stock-splits"} ->
            {[NoInput EXCEPT !.ticker = tk, !.limit = lim] :
                tk \in Tickers, lim \in {Undef, Num(0, 1), Num(3, 1)}}
      [] t = "get-stock-chart" ->
            {[NoInput EXCEPT !.ticker = tk, !.multiplier = 1, !.timespan = "day",
                             !.from = "2025-01-01", !.to = "2025-01-07"] :
                tk \in Tickers}
      [] OTHER -> {[NoInput EXCEPT !.ticker = tk] : tk \in Tickers}

\* No field is required.
RequiredNone(t) == << >>

\* The fields of a tool's input schema that are not optional, in the order
\* the schema declares them.
Required(t) ==
    IF t = "get-stock-chart"
    THEN << "ticker", "multiplier", "timespan", "from", "to" >>
    ELSE << "ticker" >>

\* The sets of required fields an invalid input is tried without.
MissingSets(t) ==
    IF t = "get-stock-chart"
    THEN {{"ticker"}, {"multiplier"}, {"timespan"}, {"from"}, {"to"}, {"from", "to"}}
    ELSE {{"ticker"}}

\* A raw input without the fields in ms: none of them carries a value.
Without(in, ms) ==
    [ticker |-> IF "ticker" \in ms THEN "" ELSE in.ticker,
     limit |-> in.limit,
     multiplier |-> IF "multiplier" \in ms THEN 0 ELSE in.multiplier,
     timespan |-> IF "timespan" \in ms THEN "" ELSE in.timespan,
     from |-> IF "from" \in ms THEN "" ELSE in.from,
     to |-> IF "to" \in ms THEN "" ELSE in.to,
     missing |-> ms]

\* Every raw input tried: the valid ones and the ones lacking required fields.
RawInputsOf(t) ==
    InputsOf(t) \cup {Without(in, ms) : in \in InputsOf(t), ms \in MissingSets(t)}

\* invoke step 2: the required fields the raw input lacks, in schema order.
MissingFields(t, in) ==
    LET Lacks(f) == f \in in.missing
    IN  SelectSeq(Required(t), Lacks)

\* invoke step 2: the failure Envelope of an input that fails validation;
\* validation stops at the first offending field and names it.
ValidationMessage(fs) == "Missing required field: " \o fs[1]
ValidationEnvelope(fs) ==
    Envelope(ValidationMessage(fs), DataNull, buildAlert("error", ValidationMessage(fs)))

Request(call, ticker, limit) == [call |-> call, ticker |-> ticker, limit |-> limit]

\* `limit = dflt` in the handler's parameter list: only an absent limit is
\* replaced (0 is kept).
LimitOrIfFalsy(in, dflt) == IF Truthy(in.limit) THEN in.limit ELSE Num(dflt, 1)

LimitOr(in, dflt) == Nullish(in.limit, Num(dflt, 1))

\* The provider call a tool handler makes first.
FirstRequest(v, t, in) ==
    CASE t = "get-stock-price" ->
            IF v = "part_001" THEN Request("previousClose", in.ticker, Undef)
            ELSE Request("aggregates", in.ticker, Num(PriceAggsLimit, 1))
      [] t = "get-stock-news" ->
            Request("tickerNews", in.ticker, LimitOr(in, NewsDefaultLimit))
      [] t = "get-stock-chart" -> Request("aggregates", in.ticker, Undef)
      [] t = "get-stock-details" -> Request("tickerDetails", in.ticker, Undef)
      [] t = "get-stock-dividends" ->
            Request("dividends", in.ticker, LimitOr(in, DividendsDefaultLimit))
      [] t = "get-stock-splits" ->
            Request("stockSplits", in.ticker, LimitOr(in, SplitsDefaultLimit))

\* What the provider may answer.
ListResponses(S) == {Rejected, NoResults} \cup {Results(r) : r \in SeqsUpTo(S, MaxLen)}
OneResponses(S) ==
    {Rejected, NoResults, Results(<<>>)} \cup {Results(<<x>>) : x \in S}

ArticleResponses ==
    {Rejected, NoResults} \cup {Results(r) : r \in SeqsUpTo(Articles, MaxArticles)}
BarResponses == ListResponses(Bars)
PrevCloseResponses == OneResponses(Bars)
LookupBars == {BarUp, BarDown, BarZeroOpen}
LookupResponses == OneResponses(LookupBars)
SpyBars == {BarUp, BarZeroClose, BarTinyClose}
SpyResponses == ListResponses(SpyBars)

NoOutcome == Thrown("")
NoEnvelope == Envelope("", DataNull, Node("none", <<>>, <<>>))
NoLookups == [i \in 1..Len(Indices) |-> NotIssued]

\* An invocation's own state, as a record.
NoInvocation ==
    [pc |-> "idle", op |-> "", input |-> NoInput, issued |-> <<>>,
     answers |-> <<>>, prev |-> NoBar, lookup |-> NoLookups,
     outcome |-> NoOutcome, env |-> NoEnvelope, caller |-> "", logged |-> "",
     arrival |-> <<>>, heldResults |-> <<>>]

Init ==
    /\ variant \in Variants
    /\ pc = "idle"
    /\ op = ""
    /\ input = NoInput
    /\ issued = <<>>
    /\ answers = <<>>
    /\ prev = NoBar
    /\ lookup = NoLookups
    /\ outcome = NoOutcome
    /\ env = NoEnvelope
    /\ caller = ""
    /\ logged = ""
    /\ parked = NoInvocation
    /\ registry = Registered(variant)
    /\ arrival = <<>>
    /\ heldResults = <<>>

\* The handler has ended: the dispatcher hands the caller its Envelope.
Finish(o) ==
    /\ outcome' = o
    /\ env' = Dispatch(o)
    /\ pc' = "done"

\* invoke(id, input): an input that fails validation is answered at once and
\* the handler is not called; otherwise the handler runs up to its first
\* provider call.
InvokeTool(t, in, c) ==
    /\ pc = "idle"
    /\ t \in registry
    /\ op' = t
    /\ input' = in
    /\ caller' = c
    /\ IF MissingFields(t, in) # << >>
       THEN /\ env' = ValidationEnvelope(MissingFields(t, in))
            /\ pc' = "done"
            /\ UNCHANGED <<issued, outcome, logged>>
       ELSE /\ logged' = LogLine(t, in, c)
            /\ issued' = << FirstRequest(variant, t, in) >>
            /\ pc' = FirstRequest(variant, t, in).call
            /\ UNCHANGED <<outcome, env>>
    /\ UNCHANGED <<variant, answers, prev, lookup, parked, registry, arrival,
                   heldResults>>

\* part_001 price: previousClose comes back; prevClose.results[0] is read
\* and the aggregates call is made.
PrevCloseRespond(resp) ==
    /\ pc = "previousClose"
    /\ answers' = Append(answers, resp)
    /\ IF resp.status = "rejected"
       THEN Finish(Thrown(RejectionMessage)) /\ UNCHANGED <<prev, issued>>
       ELSE IF resp.status = "absent"
       THEN Finish(Thrown(TypeErrorReading("0"))) /\ UNCHANGED <<prev, issued>>
       ELSE /\ prev' = IF HasFirst(resp) THEN SomeBar(resp.results[1]) ELSE NoBar
            /\ issued' = Append(issued, Request("aggregates", input.ticker, Undef))
            /\ pc' = "aggregates"
            /\ UNCHANGED <<outcome, env>>
    /\ UNCHANGED <<variant, op, input, lookup, caller, logged, parked, registry>>
    /\ UNCHANGED <<arrival, heldResults>>

\* aggregates comes back to the price or the chart handler.
AggregatesRespond(resp) ==
    /\ pc = "aggregates"
    /\ answers' = Append(answers, resp)
    /\ Finish(CASE op = "get-stock-chart" -> ChartHandler(variant, input, resp)
                [] variant = "index" -> PriceHandlerIndex(input.ticker, resp)
                [] variant = "part_000" -> PriceHandlerPart000(input.ticker, resp)
                [] OTHER -> PriceHandlerPart001(input.ticker, prev, resp))
    /\ heldResults' = IF op = "get-stock-price" /\ variant # "part_001"
                       THEN ResultsAfterReverse(resp)
                       ELSE ResultsOrEmpty(resp)
    /\ UNCHANGED <<variant, op, input, issued, prev, lookup>>
    /\ UNCHANGED <<caller, logged, parked, registry, arrival>>

\* The caller's id is written into the Envelope's text.
NewsRespondNamingCaller(resp) ==
    /\ pc = "tickerNews"
    /\ answers' = Append(answers, resp)
    /\ outcome' = NewsHandler(variant, input.ticker, resp)
    /\ env' = [Dispatch(NewsHandler(variant, input.ticker, resp))
                  EXCEPT !.text = @ \o " (" \o caller \o ")"]
    /\ pc' = "done"
    /\ UNCHANGED <<variant, op, input, issued, prev, lookup>>
    /\ UNCHANGED <<caller, logged, parked, registry, arrival, heldResults>>

NewsRespond(resp) ==
    /\ pc = "tickerNews"
    /\ answers' = Append(answers, resp)
    /\ Finish(NewsHandler(variant, input.ticker, resp))
    /\ UNCHANGED <<variant, op, input, issued, prev, lookup>>
    /\ UNCHANGED <<caller, logged, parked, registry, arrival, heldResults>>

DetailsRespond(resp) ==
    /\ pc = "tickerDetails"
    /\ answers' = Append(answers, resp)
    /\ Finish(DetailsHandler(variant, input.ticker, resp))
    /\ UNCHANGED <<variant, op, input, issued, prev, lookup>>
    /\ UNCHANGED <<caller, logged, parked, registry, arrival, heldResults>>

DividendsRespond(resp) ==
    /\ pc = "dividends"
    /\ answers' = Append(answers, resp)
    /\ Finish(DividendsHandler(variant, input.ticker, resp))
    /\ UNCHANGED <<variant, op, input, issued, prev, lookup>>
    /\ UNCHANGED <<caller, logged, parked, registry, arrival, heldResults>>

SplitsRespond(resp) ==
    /\ pc = "stockSplits"
    /\ answers' = Append(answers, resp)
    /\ Finish(SplitsHandler(variant, input.ticker, resp))
    /\ UNCHANGED <<variant, op, input, issued, prev, lookup>>
    /\ UNCHANGED <<caller, logged, parked, registry, arrival, heldResults>>

\* The lookups issued when getWidget starts: indices.map runs each callback
\* up to its await, so all four previousClose calls are made at once.
LookupsIssuedAtStart == 1..Len(Indices)

\* invokeWidget(id): getWidget runs up to `await Promise.all(...)`.
InvokeWidget ==
    /\ pc = "idle"
    /\ WidgetId \in registry
    /\ op' = WidgetId
    /\ input' = NoInput
    /\ lookup' = [i \in 1..Len(Indices) |->
                    IF i \in LookupsIssuedAtStart THEN Pending ELSE NotIssued]
    /\ issued' = [i \in 1..Cardinality(LookupsIssuedAtStart) |->
                    Request("previousClose", Indices[i].ticker, Undef)]
    /\ pc' = "lookups"
    /\ UNCHANGED <<variant, answers, prev, outcome, env>>
    /\ UNCHANGED <<caller, logged, parked, registry, arrival, heldResults>>

\* A rejected lookup rejects Promise.all, which getWidget catches.
AnyRejected(lk) == \E i \in DOMAIN lk : lk[i].status = "rejected"
AllFulfilled(lk) == \A i \in DOMAIN lk : lk[i].status \in {"ok", "absent"}

\* One previousClose lookup comes back.  While getWidget awaits Promise.all:
\* a rejection ends it through the catch block at once; the last fulfilment
\* lets it go on (index.ts: to the SPY aggregates call; part_000: to the
\* Envelope).  After getWidget has ended the answer changes nothing.
LookupSettles(i, resp) ==
    /\ lookup[i].status = "pending"
    /\ lookup' = [lookup EXCEPT ![i] = resp]
    /\ IF pc # "lookups"
       THEN UNCHANGED <<pc, outcome, env, issued>>
       ELSE IF AnyRejected(lookup')
       THEN Finish(Returned(WidgetFailure(variant))) /\ UNCHANGED issued
       ELSE IF ~AllFulfilled(lookup')
       THEN UNCHANGED <<pc, outcome, env, issued>>
       ELSE IF variant = "index"
       THEN /\ issued' = Append(issued, Request("aggregates", "SPY", Undef))
            /\ pc' = "spyAggregates"
            /\ UNCHANGED <<outcome, env>>
       ELSE Finish(Returned(WidgetComposePart000(lookup'))) /\ UNCHANGED issued
    /\ UNCHANGED <<variant, op, input, answers, prev>>
    /\ UNCHANGED <<caller, logged, parked, registry, heldResults>>

LookupRespond(i, resp) == LookupSettles(i, resp) /\ UNCHANGED arrival

\* The same step, with the order of completion kept.
LookupRespondInOrder(i, resp) ==
    LookupSettles(i, resp) /\ arrival' = Append(arrival, i)

\* results holds the lookups in the order they came back.
SpyAggregatesRespondByArrival(resp) ==
    /\ pc = "spyAggregates"
    /\ answers' = Append(answers, resp)
    /\ Finish(Returned(WidgetComposeIndex(
                  [k \in 1..Len(Indices) |-> lookup[arrival[k]]], resp)))
    /\ UNCHANGED <<variant, op, input, issued, prev, lookup>>
    /\ UNCHANGED <<caller, logged, parked, registry, arrival, heldResults>>

\* index.ts: the SPY aggregates call comes back.
SpyAggregatesRespond(resp) ==
    /\ pc = "spyAggregates"
    /\ answers' = Append(answers, resp)
    /\ Finish(Returned(WidgetComposeIndex(lookup, resp)))
    /\ UNCHANGED <<variant, op, input, issued, prev, lookup>>
    /\ UNCHANGED <<caller, logged, parked, registry, arrival, heldResults>>

\* The caller has its Envelope; the service is ready for the next request.
Return ==
    /\ pc = "done"
    /\ pc' = "idle"
    /\ op' = ""
    /\ input' = NoInput
    /\ issued' = <<>>
    /\ answers' = <<>>
    /\ prev' = NoBar
    /\ lookup' = NoLookups
    /\ outcome' = NoOutcome
    /\ env' = NoEnvelope
    /\ caller' = ""
    /\ logged' = ""
    /\ arrival' = <<>>
    /\ heldResults' = <<>>
    /\ UNCHANGED <<variant, parked, registry>>

Next ==
    \/ \E t \in Tools : \E in \in RawInputsOf(t) : \E c \in Callers :
          InvokeTool(t, in, c)
    \/ \E resp \in PrevCloseResponses : PrevCloseRespond(resp)
    \/ \E resp \in BarResponses : AggregatesRespond(resp)
    \/ \E resp \in ArticleResponses : NewsRespond(resp)
    \/ \E resp \in OneResponses(DetailsSet) : DetailsRespond(resp)
    \/ \E resp \in ListResponses(Dividends) : DividendsRespond(resp)
    \/ \E resp \in ListResponses(Splits) : SplitsRespond(resp)
    \/ InvokeWidget
    \/ \E i \in 1..Len(Indices) : \E resp \in LookupResponses : LookupRespond(i, resp)
    \/ \E resp \in SpyResponses : SpyAggregatesRespond(resp)
    \/ Return

Spec == Init /\ [][Next]_vars

-----------------------------------------------------------------------------
(* Properties                                                              *)

Done == pc = "done"

\* The failure Envelope: a text, data null, an alert node.
IsErrorEnvelope(e) == e.text # "" /\ e.data.isNull /\ e.ui.type = "alert"

\* A provider answer that is there but holds no record.
NoData(resp) == resp.status = "absent" \/ (resp.status = "ok" /\ resp.results = <<>>)

\* The children of a node that have the given type.
ChildrenOfType(node, ty) ==
    LET Is(c) == c.type = ty
    IN  SelectSeq(node.children, Is)

\* The price tool has ended and the call its latest bar is read from (the
\* aggregates call of index.ts and part_000, the previousClose call of
\* part_001) came back with no bar.
PriceWithoutBars ==
    /\ Done
    /\ op = "get-stock-price"
    /\ Len(answers) >= 1
    /\ NoData(answers[1])

\* C1: when the provider has no bar for the symbol of a price request (empty
\* or absent results), the handler fails in every variant and the caller
\* receives the failure Envelope (data null, alert node), not a fault.
C1_NoBarsGivesErrorEnvelope ==
    PriceWithoutBars => outcome.threw /\ IsErrorEnvelope(env)

C1_Witness ==
    /\ PriceWithoutBars
    /\ variant = "index"
    /\ answers = << Results(<<>>) >>
    /\ env.text = "No data available for " \o input.ticker
    /\ env.ui.type = "alert"

\* The widget has ended through its catch block.
WidgetFailed ==
    /\ Done
    /\ op = WidgetId
    /\ \/ AnyRejected(lookup)
       \/ (Len(answers) = 1 /\ answers[1].status = "rejected")

\* C2: whenever a tool handler or the widget fails, the caller receives an
\* Envelope with a text, data null and an alert node; the widget's own
\* failure Envelope has an alert node too.
C2_FailureIsAlertEnvelope ==
    (Done /\ (outcome.threw \/ WidgetFailed)) => IsErrorEnvelope(env)

\* C3: a rejected index lookup does not abort the widget: the Envelope is not
\* the failure Envelope and that index is a placeholder row.
C3_RejectedLookupIsPlaceholder ==
    \A m \in 1..Len(Indices) :
        (/\ Done
         /\ op = WidgetId
         /\ lookup[m].status = "rejected"
         /\ \A i \in 1..Len(Indices) : i # m => HasFirst(lookup[i]))
        => (/\ ~env.data.isNull
            /\ env.data.val[m].price = "N/A")

\* The rows of the widget's table.
WidgetTableRows(e) == ChildrenOfType(e.ui, "table")[1].uiData.rows

\* C4: with 3 lookups returning data and 1 returning none, the widget returns
\* a full Envelope whose table has 4 rows, the missing index's row showing
\* "N/A" and zero change.
C4_ThreeOfFourGivesFullTable ==
    \A m \in 1..Len(Indices) :
        (/\ Done
         /\ op = WidgetId
         /\ NoData(lookup[m])
         /\ \A i \in 1..Len(Indices) : i # m => HasFirst(lookup[i]))
        => (/\ ~env.data.isNull
            /\ Len(WidgetTableRows(env)) = 4
            /\ WidgetTableRows(env)[m].price = Str("N/A")
            /\ WidgetTableRows(env)[m].change = Str("+$0.00")
            /\ WidgetTableRows(env)[m].changePercent = Str("+0.00%")
            /\ env.data.val[m].change = "0.00"
            /\ env.data.val[m].changePercent = "0.00")

\* C5: when all four lookups fail (no data, or a rejection), the widget
\* returns the failure Envelope and no table of placeholder rows.
C5_AllFailedGivesErrorEnvelope ==
    (/\ Done
     /\ op = WidgetId
     /\ \A i \in 1..Len(Indices) :
            lookup[i].status = "rejected" \/ NoData(lookup[i]))
    => IsErrorEnvelope(env)

\* C6: the four lookups are issued together, and the widget's Envelope is
\* returned only after all four have come back.
C6_EnvelopeAfterAllLookups ==
    /\ (op = WidgetId /\ pc # "idle")
           => \A i \in 1..Len(Indices) : lookup[i].status # "none"
    /\ (op = WidgetId /\ Done)
           => \A i \in 1..Len(Indices) : Settled(lookup[i])

\* C7: every percent-change computed is a finite number, whatever the open
\* (zero and absent included).
C7_PercentChangeFinite ==
    (Done /\ ~outcome.threw /\ ~env.data.isNull) =>
        /\ op = "get-stock-price" => IsFinite(env.data.val.changePercent)
        /\ op = WidgetId =>
              \A i \in 1..Len(Indices) :
                  IsFinite(ParseFloat(env.data.val[i].changePercent))

\* The bar the price tool's statistics are taken from.
LatestBar == answers[1].results[1]

\* (close - open) / open * 100 to 2 places, as a string.
ExpectedPercent(b) == ToFixed2(Mul(Div(Sub(b.c, b.o), b.o), Num(100, 1)))

\* C8: the price tool's percent-change is (close - open) / open * 100 rounded
\* to 2 places, sign kept: "5.00% change" for 100 -> 105, "-5.00% change"
\* for 100 -> 95; data.changePercent and the trend value are that number.
C8_PercentChangeFormula ==
    (/\ Done
     /\ op = "get-stock-price"
     /\ ~outcome.threw
     /\ IsFinite(LatestBar.o) /\ LatestBar.o.n # 0 /\ IsFinite(LatestBar.c))
    => LET trend == ChildrenOfType(env.ui, "chart")[1].uiData.trend
           expected == ExpectedPercent(LatestBar)
       IN  /\ trend.text = expected \o "% change"
           /\ NumEq(trend.value, ParseFloat(expected))
           /\ NumEq(env.data.val.changePercent, ParseFloat(expected))
           /\ (LatestBar.o = Num(100, 1) /\ LatestBar.c = Num(105, 1))
                  => trend.text = "5.00% change"
           /\ (LatestBar.o = Num(100, 1) /\ LatestBar.c = Num(95, 1))
                  => trend.text = "-5.00% change"

\* C9: {ticker: "AAPL"} with the provider returning the one bar
\* {o:150, c:157.5, h:158, l:149, v:1000000, t} gives, in every variant, a
\* success Envelope with changePercent 5.00 and a div/card root holding a
\* chart and a table with the rows Volume, Open, High, Low, VWAP.
C9_ScenarioOneBar ==
    (/\ Done
     /\ op = "get-stock-price"
     /\ input.ticker = "AAPL"
     /\ Len(answers) >= 1
     /\ \A i \in 1..Len(answers) : answers[i] = Results(<< BarScenario >>))
    => (/\ ~outcome.threw
        /\ ~env.data.isNull
        /\ NumEq(env.data.val.changePercent, Num(5, 1))
        /\ env.ui.type \in {"div", "card"}
        /\ Len(ChildrenOfType(env.ui, "chart")) = 1
        /\ Len(ChildrenOfType(env.ui, "table")) = 1
        /\ LET rows == ChildrenOfType(env.ui, "table")[1].uiData.rows
           IN  [i \in 1..Len(rows) |-> rows[i].metric.s]
                   = << "Volume", "Open", "High", "Low", "VWAP" >>)

\* C10: for every tool, an empty result set from the provider gives a failure
\* Envelope (descriptive text, data null), not a success Envelope with an
\* empty table or chart.
C10_EmptyResultsGiveErrorEnvelope ==
    (/\ Done
     /\ op \in Tools
     /\ Len(answers) >= 1
     /\ answers[Len(answers)] = Results(<<>>))
    => (env.text # "" /\ env.data.isNull)

\* The service's own scheduling: the handler's continuations run when an
\* answer arrives, and a finished invocation is handed back.  Nothing in the
\* handlers bounds the wait for an answer (no timeout, no race with a
\* timer), so no fairness is stated for the provider's answers.
LiveSpec == Spec /\ WF_vars(Return)

\* An invocation is under way: the handler awaits a provider call.
Awaiting == pc \notin {"idle", "done"}

\* C11: every invocation eventually returns an Envelope, also when the
\* provider never answers a call (the wait then ends as a handler failure).
C11_InvocationEventuallyReturns == Awaiting ~> Done

\* The tools whose schema has the optional limit.
LimitTools == {"get-stock-news", "get-stock-dividends", "get-stock-splits"}

\* A valid invocation of a tool is under way or has ended.
ValidInvocation == op \in Tools /\ pc # "idle" /\ input.missing = {}

\* C12: for a valid input the handler runs once (one request to the provider
\* by the limit tools), and the limit that reaches the provider is the
\* supplied one, or 5 (news), 10 (dividends), 5 (splits) when omitted.
C12_DefaultsReachProvider ==
    (ValidInvocation /\ op \in LimitTools) =>
        /\ Len(issued) = 1
        /\ issued[1].ticker = input.ticker
        /\ issued[1].limit =
              IF ~IsUndef(input.limit) THEN input.limit
              ELSE IF op = "get-stock-dividends" THEN Num(10, 1)
              ELSE Num(5, 1)

C12_Witness ==
    /\ Done
    /\ op = "get-stock-dividends"
    /\ input.missing = {}
    /\ IsUndef(input.limit)
    /\ issued = << Request("dividends", input.ticker, Num(10, 1)) >>
    /\ ~outcome.threw

\* The string s holds the string sub.
Contains(s, sub) ==
    \E i \in 1..(Len(s) - Len(sub) + 1) : SubSeq(s, i, i + Len(sub) - 1) = sub

\* C13: for an input lacking a required field the handler is never called
\* (no provider call is made) and the caller receives the failure Envelope,
\* whose text names a missing field.
C13_MissingFieldNeverCallsHandler ==
    (op \in Tools /\ pc # "idle" /\ input.missing # {}) =>
        /\ Done
        /\ issued = << >>
        /\ answers = << >>
        /\ IsErrorEnvelope(env)
        /\ \E f \in input.missing : Contains(env.text, f)

C13_Witness ==
    /\ Done
    /\ op = "get-stock-chart"
    /\ input.missing = {"from", "to"}
    /\ issued = << >>
    /\ env.text = "Missing required field: from"
    /\ env.ui.type = "alert"

\* The table node of an Envelope: the root itself, or the root's table child.
TableOf(e) == IF e.ui.type = "table" THEN e.ui ELSE ChildrenOfType(e.ui, "table")[1]

\* C14: for a news response of n articles, data.articles has n entries, the
\* table has n rows, both in the provider's order, and the table's columns
\* are Source, Title, Link, Published.
C14_NewsRowsMatchArticles ==
    (Done /\ op = "get-stock-news" /\ answers # << >> /\ answers[1].status = "ok") =>
        LET r == answers[1].results
            t == TableOf(env).uiData
        IN  /\ ~outcome.threw
            /\ env.ui.type = "table"
            /\ Len(env.data.val.articles) = Len(r)
            /\ Len(t.rows) = Len(r)
            /\ \A i \in 1..Len(r) :
                  /\ env.data.val.articles[i].title = r[i].title
                  /\ env.data.val.articles[i].url = r[i].article_url
                  /\ t.rows[i].title = r[i].title
                  /\ t.rows[i].publisher = r[i].publisher.name
                  /\ t.rows[i].url.url = r[i].article_url
            /\ [i \in 1..Len(t.columns) |-> t.columns[i].header]
                  = << "Source", "Title", "Link", "Published" >>

C14_Witness ==
    /\ Done
    /\ op = "get-stock-news"
    /\ input.ticker = "TSLA"
    /\ input.limit = Num(3, 1)
    /\ Len(answers) = 1
    /\ answers[1].status = "ok"
    /\ Len(answers[1].results) = 3
    /\ answers[1].results[1] # answers[1].results[2]
    /\ Len(env.data.val.articles) = 3
    /\ Len(TableOf(env).uiData.rows) = 3

\* The invocation has ended with a success Envelope that holds a table.
EmitsTable ==
    /\ Done
    /\ ~env.data.isNull
    /\ env.ui.type = "table" \/ Len(ChildrenOfType(env.ui, "table")) > 0

\* The columns and rows the handler gave to JSON.stringify or to the table
\* builder, computed again from the provider's answers.
GivenTable ==
    CASE op = "get-stock-price" ->
            TableGiven(variant, PriceColumns("40%", "60%"), PriceRows(LatestBar))
      [] op = "get-stock-news" ->
            TableGiven(variant, NewsColumns,
                       NewsRows(NewsArticles(answers[1].results)))
      [] op = "get-stock-details" ->
            TableGiven(variant, DetailsColumns, DetailsRows(answers[1].results[1]))
      [] op = "get-stock-dividends" ->
            TableGiven(variant, DividendColumns, DividendRows(answers[1].results))
      [] op = "get-stock-splits" ->
            TableGiven(variant, SplitColumns, SplitRows(answers[1].results))
      [] op = WidgetId ->
            TableGiven(variant, WidgetColumns,
                       WidgetRows(variant, WidgetResults(lookup)))

\* C15: the payload read back from an emitted table node is the columns and
\* rows the handler gave, unchanged in order and content, rows with an
\* absent cell value included.
C15_TableRoundTrip ==
    EmitsTable =>
        /\ TableOf(env).uiData.columns = GivenTable.columns
        /\ TableOf(env).uiData.rows = GivenTable.rows

\* The kinds of a node's children, in order.
ChildKinds(node) == [i \in 1..Len(node.children) |-> node.children[i].type]

\* The invocation has ended with a success Envelope.
Succeeded == Done /\ ~env.data.isNull

\* C16 as stated: the root's children are chart then table for the price
\* tool, table then chart for the widget.
C16_ChildrenAsStated ==
    /\ (Succeeded /\ op = "get-stock-price")
           => ChildKinds(env.ui) = << "chart", "table" >>
    /\ (Succeeded /\ op = WidgetId)
           => ChildKinds(env.ui) = << "table", "chart" >>

\* C16: the root's children are exactly the nodes the handler added, in the
\* order added.  Price tool: chart then table (part_001 adds the chart
\* alone).  Widget: table then chart (index.ts adds the chart only when its
\* series has a point).
C16_ChildrenAreNodesAdded ==
    /\ (Succeeded /\ op = "get-stock-price")
           => ChildKinds(env.ui) =
                 IF variant = "part_001" THEN << "chart" >> ELSE << "chart", "table" >>
    /\ (Succeeded /\ op = WidgetId)
           => ChildKinds(env.ui) =
                 IF variant = "index" /\ SpySeries(answers[1]) = << >>
                 THEN << "table" >>
                 ELSE << "table", "chart" >>

C16_Witness ==
    /\ Succeeded
    /\ op = WidgetId
    /\ variant = "index"
    /\ Len(SpySeries(answers[1])) = 2
    /\ ChildKinds(env.ui) = << "table", "chart" >>

\* One ui node: an object with a kind tag (not absent, not a list of nodes).
IsNode(n) == "type" \in DOMAIN n /\ n.type \notin {"", "none"}

-----------------------------------------------------------------------------
(* Two invocations at once.  The handlers are async functions on one event *)
(* loop: one runs at a time, and at an await another invocation may run.   *)
(* Each invocation's state is its own locals (ticker, limit, response,     *)
(* prevCloseData, results, ...); the module holds only constants.          *)

\* The state of the invocation that is running.
Active ==
    [pc |-> pc, op |-> op, input |-> input, issued |-> issued,
     answers |-> answers, prev |-> prev, lookup |-> lookup,
     outcome |-> outcome, env |-> env, caller |-> caller, logged |-> logged,
     arrival |-> arrival, heldResults |-> heldResults]

\* prevCloseData is held in one place for both invocations.
SwitchSharingPrev ==
    /\ parked' = Active
    /\ pc' = parked.pc
    /\ op' = parked.op
    /\ input' = parked.input
    /\ issued' = parked.issued
    /\ answers' = parked.answers
    /\ lookup' = parked.lookup
    /\ outcome' = parked.outcome
    /\ env' = parked.env
    /\ caller' = parked.caller
    /\ logged' = parked.logged
    /\ arrival' = parked.arrival
    /\ heldResults' = parked.heldResults
    /\ UNCHANGED <<prev, variant, registry>>

\* The running invocation is at an await (or has not started, or has ended):
\* the event loop turns to the other invocation, each keeping its locals.
Switch ==
    /\ parked' = Active
    /\ pc' = parked.pc
    /\ op' = parked.op
    /\ input' = parked.input
    /\ issued' = parked.issued
    /\ answers' = parked.answers
    /\ prev' = parked.prev
    /\ lookup' = parked.lookup
    /\ outcome' = parked.outcome
    /\ env' = parked.env
    /\ caller' = parked.caller
    /\ logged' = parked.logged
    /\ arrival' = parked.arrival
    /\ heldResults' = parked.heldResults
    /\ UNCHANGED <<variant, registry>>

\* The requests and answers tried when two invocations interleave.
ConcInputs(t) == {in \in InputsOf(t) : IsUndef(in.limit)}
ConcBarResponses == {Rejected, Results(<< BarUp >>), Results(<< BarDown >>)}
ConcArticleResponses == {Rejected} \cup {Results(<< a >>) : a \in Articles}
ConcLookupResponses == {Rejected, Results(<< BarUp >>)}
ConcSpyResponses == {NoResults, Results(<< BarUp >>)}
ConcOthers(S) == {Rejected} \cup {Results(<< x >>) : x \in S}

ConcNext ==
    \/ \E t \in Tools : \E in \in ConcInputs(t) : \E c \in Callers :
          InvokeTool(t, in, c)
    \/ \E resp \in ConcBarResponses : PrevCloseRespond(resp)
    \/ \E resp \in ConcBarResponses : AggregatesRespond(resp)
    \/ \E resp \in ConcArticleResponses : NewsRespond(resp)
    \/ \E resp \in ConcOthers(DetailsSet) : DetailsRespond(resp)
    \/ \E resp \in ConcOthers(Dividends) : DividendsRespond(resp)
    \/ \E resp \in ConcOthers(Splits) : SplitsRespond(resp)
    \/ InvokeWidget
    \/ \E i \in 1..Len(Indices) : \E resp \in ConcLookupResponses :
          LookupRespond(i, resp)
    \/ \E resp \in ConcSpyResponses : SpyAggregatesRespond(resp)
    \/ Return
    \/ Switch

ConcSpec == Init /\ [][ConcNext]_vars

\* What a tool's handler ends with when it runs alone on the input and is
\* given the answers, in order.
AloneOutcome(v, t, in, ans) ==
    CASE t = "get-stock-price" /\ v = "index" -> PriceHandlerIndex(in.ticker, ans[1])
      [] t = "get-stock-price" /\ v = "part_000" ->
            PriceHandlerPart000(in.ticker, ans[1])
      [] t = "get-stock-price" /\ v = "part_001" ->
            IF ans[1].status = "rejected" THEN Thrown(RejectionMessage)
            ELSE IF ans[1].status = "absent" THEN Thrown(TypeErrorReading("0"))
            ELSE PriceHandlerPart001(in.ticker,
                     IF HasFirst(ans[1]) THEN SomeBar(ans[1].results[1]) ELSE NoBar,
                     ans[2])
      [] t = "get-stock-news" -> NewsHandler(v, in.ticker, ans[1])
      [] t = "get-stock-chart" -> ChartHandler(v, in, ans[1])
      [] t = "get-stock-details" -> DetailsHandler(v, in.ticker, ans[1])
      [] t = "get-stock-dividends" -> DividendsHandler(v, in.ticker, ans[1])
      [] t = "get-stock-splits" -> SplitsHandler(v, in.ticker, ans[1])

\* The Envelope an ended invocation returns when it runs alone with its
\* input and the provider's answers to it.
AloneEnvelope(v, inv) ==
    IF inv.op = WidgetId
    THEN IF AnyRejected(inv.lookup) THEN WidgetFailure(v)
         ELSE IF v = "index" THEN WidgetComposeIndex(inv.lookup, inv.answers[1])
         ELSE WidgetComposePart000(inv.lookup)
    ELSE IF MissingFields(inv.op, inv.input) # << >>
    THEN ValidationEnvelope(MissingFields(inv.op, inv.input))
    ELSE Dispatch(AloneOutcome(v, inv.op, inv.input, inv.answers))

\* C18: in every interleaving of two invocations, each one's Envelope is the
\* one it returns when run alone with the same input and the same answers,
\* and the registered tools and widgets stay what the service was defined
\* with.
C18_InvocationsIndependent ==
    /\ Done => env = AloneEnvelope(variant, Active)
    /\ parked.pc = "done" => parked.env = AloneEnvelope(variant, parked)
    /\ registry = Registered(variant)

C18_Witness ==
    /\ Done
    /\ parked.pc = "done"
    /\ variant = "part_001"
    /\ op = "get-stock-price"
    /\ parked.op = "get-stock-price"
    /\ prev # parked.prev
    /\ ~env.data.isNull
    /\ ~parked.env.data.isNull
    /\ env # parked.env

\* Both invocations have ended, of the same tool, with the same input and the
\* same answers from the provider.
SameCallTwice ==
    /\ Done
    /\ parked.pc = "done"
    /\ op \in Tools
    /\ op = parked.op
    /\ input = parked.input
    /\ answers = parked.answers

\* C19: two invocations of a tool with the same input and the same answers
\* return the same Envelope, whatever their caller ids: the id goes to the
\* log line only.
C19_CallerOnlyLogged ==
    SameCallTwice =>
        /\ env = parked.env
        /\ (caller # parked.caller /\ logged # "") => logged # parked.logged

C19_Witness ==
    /\ SameCallTwice
    /\ op = "get-stock-news"
    /\ caller = "agent-1"
    /\ parked.caller = "agent-2"
    /\ ~env.data.isNull
    /\ env = parked.env
    /\ logged = "User / Agent agent-1 requested news for " \o input.ticker
    /\ parked.logged = "User / Agent agent-2 requested news for " \o input.ticker

\* The keys of a table's declared columns.
ColumnKeys(t) == {t.columns[j].key : j \in 1..Len(t.columns)}

\* C20: in every table emitted, by a tool or by the widget, each row's keys
\* are among the keys of the declared columns.
C20_RowKeysAmongColumnKeys ==
    EmitsTable =>
        \A i \in 1..Len(TableOf(env).uiData.rows) :
            DOMAIN TableOf(env).uiData.rows[i] \subseteq ColumnKeys(TableOf(env).uiData)

\* The previousClose answer of a provider whose aggregates answer is ag: the
\* latest bar alone (the same rejection or absence otherwise).
PrevCloseOf(ag) ==
    IF HasFirst(ag) THEN Results(<< ag.results[1] >>) ELSE ag

\* The answers variant v's handler receives from the provider that gave the
\* running index.ts invocation its answers.
AnswersIn(v) ==
    IF op = "get-stock-price" /\ v = "part_001"
    THEN << PrevCloseOf(answers[1]), answers[1] >>
    ELSE answers

\* C21: for every tool, the same input and the same provider state give the
\* same outcome (success or failure), the same text and the same data in
\* index.ts, part_000 and part_001.
C21_VariantsEquivalent ==
    (Done /\ variant = "index" /\ op \in Tools /\ input.missing = {}) =>
        \A v \in Variants :
            LET o == AloneOutcome(v, op, input, AnswersIn(v))
            IN  /\ o.threw = outcome.threw
                /\ Dispatch(o).text = env.text
                /\ Dispatch(o).data = env.data

-----------------------------------------------------------------------------
(* The widget alone, with the order in which its lookups come back kept.   *)

OrderSpyResponses == {NoResults, Results(<< BarUp >>)}

OrderNext ==
    \/ InvokeWidget
    \/ \E i \in 1..Len(Indices) : \E resp \in LookupResponses :
          LookupRespondInOrder(i, resp)
    \/ \E resp \in OrderSpyResponses : SpyAggregatesRespond(resp)
    \/ Return

OrderSpec == Init /\ [][OrderNext]_vars

\* The names of the result rows, in order.
IndexNames == [i \in 1..Len(Indices) |-> Indices[i].name]

\* C22: whatever order the four lookups come back in, the rows of data and
\* of the table are Dow Jones, S&P 500, NASDAQ, Russell 2000 in that order,
\* each from its own lookup, and the percent in the text is the one of the
\* S&P 500 (SPY) lookup.
C22_RowsInFixedOrder ==
    (Done /\ op = WidgetId /\ ~env.data.isNull) =>
        /\ [i \in 1..Len(env.data.val) |-> env.data.val[i].name]
              = << "Dow Jones", "S&P 500", "NASDAQ", "Russell 2000" >>
        /\ [i \in 1..Len(WidgetTableRows(env)) |-> WidgetTableRows(env)[i].name.s]
              = << "Dow Jones", "S&P 500", "NASDAQ", "Russell 2000" >>
        /\ \A i \in 1..Len(Indices) :
              env.data.val[i] = IndexResult(IndexNames[i], lookup[i])
        /\ env.text = "Market Overview - S&P 500: "
                          \o IndexResult("S&P 500", lookup[2]).changePercent \o "%"

C22_Witness ==
    /\ Done
    /\ op = WidgetId
    /\ variant = "index"
    /\ ~env.data.isNull
    /\ arrival = << 4, 3, 2, 1 >>
    /\ lookup[1] = Results(<< BarDown >>)
    /\ lookup[2] = Results(<< BarUp >>)
    /\ env.text = "Market Overview - S&P 500: 5.00%"
    /\ env.data.val[1].changePercent = "-5.00"

-----------------------------------------------------------------------------
(* The widget's SPY aggregates request.                                    *)

SpyRequest == Request("aggregates", "SPY", Undef)
SpyIssued == \E k \in 1..Len(issued) : issued[k] = SpyRequest

\* C23: in index.ts the widget sends the SPY aggregates request only once
\* all four lookups have come back, and when that request fails the widget
\* returns its failure Envelope with null data, the four lookups having
\* succeeded or not.
C23_SpyAfterLookupsAndFailureFails ==
    (variant = "index" /\ op = WidgetId) =>
        /\ SpyIssued => AllFulfilled(lookup)
        /\ (Done /\ SpyIssued /\ answers = << Rejected >>) =>
              /\ env = WidgetFailure("index")
              /\ env.data.isNull
              /\ env.text = "Failed to load market overview"

C23_Witness ==
    /\ variant = "index"
    /\ op = WidgetId
    /\ Done
    /\ \A i \in 1..Len(Indices) : lookup[i] = Results(<< BarUp >>)
    /\ issued[Len(issued)] = SpyRequest
    /\ answers = << Rejected >>
    /\ env.data.isNull
    /\ env.text = "Failed to load market overview"

-----------------------------------------------------------------------------
(* The children of the widget's root.                                      *)

\* The bar's close as the chart shows it, and whether the chart keeps it.
RoundedClose(bar) == ToNum(ToFixed2(ToNumber(bar.c)))
NonZeroClose(bar) == RoundedClose(bar).k = "num" /\ RoundedClose(bar).n # 0

\* C24: when the widget of index.ts succeeds the table is the first child of
\* the root, a chart child is there exactly when some SPY bar has a rounded
\* close other than zero, and an absent or empty aggregates result leaves
\* the table alone.
C24_ChartOnlyWithPoints ==
    (Succeeded /\ op = WidgetId /\ variant = "index") =>
        LET bars == ResultsOrEmpty(answers[1])
        IN  /\ env.ui.children[1].type = "table"
            /\ (ChildrenOfType(env.ui, "chart") # << >>)
                  <=> (\E i \in 1..Len(bars) : NonZeroClose(bars[i]))
            /\ Len(ChildrenOfType(env.ui, "chart")) <= 1
            /\ (answers[1].status = "absent" \/ bars = << >>)
                  => ChildKinds(env.ui) = << "table" >>

C24_Witness ==
    /\ Succeeded
    /\ op = WidgetId
    /\ variant = "index"
    /\ answers[1] = Results(<< BarTinyClose, BarZeroClose >>)
    /\ ChildKinds(env.ui) = << "table" >>

-----------------------------------------------------------------------------
(* The price tool and the provider's bars.                                 *)

\* The chart and the table the price tool's Envelope shows.
PriceChartShown == ChildrenOfType(env.ui, "chart")[1].uiData
PriceTableShown == ChildrenOfType(env.ui, "table")[1].uiData

\* C25: in index.ts and part_000 the price tool takes its statistics (text,
\* data, table, trend) from the first bar of the provider's descending
\* result, its chart series is the provider's bars reversed (as many points
\* as bars, the first bar the last point), and the provider's result array
\* keeps its order.
C25_StatsFromFirstBarSeriesReversed ==
    (Succeeded /\ op = "get-stock-price" /\ variant \in {"index", "part_000"}) =>
        LET bars == ResultsOrEmpty(answers[1])
            n == Len(bars)
            first == bars[1]
            change == Sub(first.c, first.o)
            percent == PercentFixed(change, first.o)
        IN  /\ env.text = PriceText(input.ticker, ToFixed2(first.c), percent)
            /\ env.data = PriceData(first.c, first.h, first.l, first.v,
                                    change, percent)
            /\ PriceTableShown.rows = PriceRows(first)
            /\ PriceChartShown.trend.text = percent \o "% change"
            /\ Len(PriceChartShown.data) = n
            /\ \A i \in 1..n :
                  /\ PriceChartShown.data[i].time = LocaleDate(bars[n + 1 - i].t)
                  /\ PriceChartShown.data[i].price = JsonNumber(bars[n + 1 - i].c)
            /\ PriceChartShown.data[n].time = LocaleDate(first.t)
            /\ heldResults = bars

C25_Witness ==
    /\ Succeeded
    /\ op = "get-stock-price"
    /\ variant = "index"
    /\ answers[1] = Results(<< BarDown, BarUp >>)
    /\ heldResults = << BarDown, BarUp >>
    /\ env.text = "AAPL is trading at $95.00. Today's change: -5.00%"
    /\ PriceChartShown.data[1].time = LocaleDate(BarUp.t)
    /\ PriceChartShown.data[2].time = LocaleDate(BarDown.t)

-----------------------------------------------------------------------------
(* Startup: the contracts are registered, then the service serves.         *)

DuplicateIdError == "DuplicateIdError"

\* register(contract): an id already there is refused and the registry is
\* left as it was.
register(reg, id) ==
    IF id \in reg
    THEN [registry |-> reg, error |-> DuplicateIdError]
    ELSE [registry |-> reg \cup {id}, error |-> ""]

\* The contracts are registered one after the other; the first refusal ends
\* the startup.
RECURSIVE RegisterAll(_, _)
RegisterAll(reg, ids) ==
    IF ids = << >> THEN [registry |-> reg, error |-> ""]
    ELSE LET r == register(reg, Head(ids))
         IN  IF r.error # "" THEN r ELSE RegisterAll(r.registry, Tail(ids))

StartInit ==
    /\ variant \in Variants
    /\ pc = "startup"
    /\ op = ""
    /\ input = NoInput
    /\ issued = <<>>
    /\ answers = <<>>
    /\ prev = NoBar
    /\ lookup = NoLookups
    /\ outcome = NoOutcome
    /\ env = NoEnvelope
    /\ caller = ""
    /\ logged = ""
    /\ parked = NoInvocation
    /\ registry = {}
    /\ arrival = <<>>
    /\ heldResults = <<>>

\* defineDAINService registers its tools and pinnables; a refusal is fatal
\* and the service does not start.
Startup ==
    /\ pc = "startup"
    /\ LET r == RegisterAll(registry, ContractIds(variant))
       IN  /\ registry' = r.registry
           /\ IF r.error = ""
              THEN pc' = "idle" /\ UNCHANGED outcome
              ELSE pc' = "failed" /\ outcome' = Thrown(r.error)
    /\ UNCHANGED <<variant, op, input, issued, answers, prev, lookup, env>>
    /\ UNCHANGED <<caller, logged, parked, arrival, heldResults>>

\* A second contract is registered under an id that is taken.
RegisterAgain(id) ==
    /\ pc = "idle"
    /\ id \in registry
    /\ registry' = register(registry, id).registry
    /\ outcome' = Thrown(register(registry, id).error)
    /\ UNCHANGED <<variant, pc, op, input, issued, answers, prev, lookup, env>>
    /\ UNCHANGED <<caller, logged, parked, arrival, heldResults>>

StartNext ==
    \/ Startup
    \/ \E id \in Tools \cup {WidgetId} : RegisterAgain(id)
    \/ Next

StartSpec == StartInit /\ [][StartNext]_vars

\* C26: the ids of the six tools and of the widget are pairwise distinct, so
\* registering them at startup raises no DuplicateIdError; once the service
\* serves, the registry is the set registered at startup and stays so; and
\* registering a second contract under an id that is taken fails with
\* DuplicateIdError and leaves the registry as it was.
C26_RegistryFixedIdsDistinct ==
    /\ [](\A i, j \in 1..Len(ContractIds(variant)) :
             i # j => ContractIds(variant)[i] # ContractIds(variant)[j])
    /\ [](pc # "failed")
    /\ [](pc # "startup" =>
             registry = { ContractIds(variant)[i] :
                             i \in 1..Len(ContractIds(variant)) })
    /\ [][Startup => outcome'.message # DuplicateIdError]_vars
    /\ [][pc # "startup" => registry' = registry]_vars
    /\ [][(\E id \in Tools \cup {WidgetId} : RegisterAgain(id)) =>
             (outcome' = Thrown(DuplicateIdError) /\ registry' = registry)]_vars

C26_Witness ==
    /\ variant = "index"
    /\ pc = "idle"
    /\ registry = Tools \cup {WidgetId}
    /\ Cardinality(registry) = 7
    /\ outcome = Thrown(DuplicateIdError)

====
